---- MODULE Spec2Model ----
(***************************************************************************)
(* The autopilot round engine of reapbid (functions/src/autopilot.ts) as a *)
(* state machine over the shared game documents of the realtime database.  *)
(*                                                                         *)
(* autopilot.ts holds two revisions of the engine.  The revision with      *)
(* processGameRound / advanceGameState / handleAutopilot settles a round   *)
(* with two store updates ("twoPhase"); the revision whose                 *)
(* processGameRound does everything settles it with one ("single").  The   *)
(* variable `variant` fixes the revision a behaviour runs.                 *)
(*                                                                         *)
(* Every `await gameRef.update(...)` is a step of its own: the patch is    *)
(* built from the snapshot the invocation read, and applied to whatever    *)
(* the document holds when the update lands.  Two invocation slots model   *)
(* overlapping runs of the scheduled function.                             *)
(***************************************************************************)
EXTENDS Integers, FiniteSets, Sequences, TLC

VARIABLES
    variant,   \* which revision of the engine is deployed
    db,        \* games/{gameId}: [status, gameState]
    task,      \* task[t][g]: the per-game callback of invocation slot t
    now,       \* Date.now(), in ms
    events,    \* AutopilotMonitor's log: the event logged last
    calls,     \* calls of toggleAutopilot and endGame still to come
    reply,     \* what the admin's last call came back with
    undefinedGame, \* the node games/undefined/gameState/autopilot, if any
    microtasks \* the calls of the storage adapter suspended at an await

vars == <<variant, db, task, now, events, calls, reply, undefinedGame, microtasks>>

----------------------------------------------------------------------------
(* Bounds and program constants *)

Games == {"game1", "game2"}
Players == {"player1", "player2", "player3"}
TwoPlayers == {"player4", "player5"}
OtherPlayers == {"player6", "player7"}
Slots == {"tickA", "tickB"}
Variants == {"twoPhase", "single"}

\* rounds a game is configured with: 1..MaxRounds
MaxRounds == 2

\* number of clock advances in a behaviour
MaxClock == 1

\* number of calls of toggleAutopilot and endGame in a behaviour
MaxCalls == 2

RoundTimeLimit == 60
MinBid == 0
MaxBid == 100
CostPerUnit == 50
\* the bid a player submits (players "player2" of the tests bids 60)
SubmittedBid == 60
\* a bid above the game's maxBid: submitBid stores whatever it is given
OverBid == MaxBid + 1
MarketSize == 1000

\* null / absent (a bid, a timestamp)
Null == -1

\* the clock advances by a round's time limit
ClockStep == RoundTimeLimit * 1000

IsNumber(x) == x # Null

----------------------------------------------------------------------------
(* Pure helpers of autopilot.ts *)

\* a variant of ActivePlayerIds that counts the timed-out players in
PlayerIds(gs) == DOMAIN gs.players

ActivePlayerIds(gs) == {p \in DOMAIN gs.players : ~gs.players[p].isTimedOut}
TimedOutPlayerIds(gs) == {p \in DOMAIN gs.players : gs.players[p].isTimedOut}

\* if (!gameState?.players): an empty players node is absent in the store
HasPlayers(gs) == DOMAIN gs.players # {}

\* a variant of allPlayersSubmittedBids without the minimum of 2 active players
AllSubmittedOfAny(gs) ==
    IF ~HasPlayers(gs) THEN FALSE
    ELSE \A p \in ActivePlayerIds(gs) : gs.players[p].hasSubmittedBid = TRUE

allPlayersSubmittedBids(gs) ==
    IF ~HasPlayers(gs) THEN FALSE
    ELSE IF Cardinality(ActivePlayerIds(gs)) < 2 THEN FALSE
    ELSE \A p \in ActivePlayerIds(gs) : gs.players[p].hasSubmittedBid = TRUE

\* a variant of shouldProcessRound that waits for the bids only
ShouldProcessWhenAllSubmitted(gs, currentTime) ==
    IF gs.roundStartTime = Null \/ ~HasPlayers(gs) \/ gs.roundTimeLimit = 0
    THEN FALSE
    ELSE IF Cardinality(ActivePlayerIds(gs)) < 2 THEN FALSE
    ELSE allPlayersSubmittedBids(gs)

\* a variant of shouldProcessRound that waits for the time limit only
ShouldProcessWhenTimeIsUp(gs, currentTime) ==
    IF gs.roundStartTime = Null \/ ~HasPlayers(gs) \/ gs.roundTimeLimit = 0
    THEN FALSE
    ELSE IF Cardinality(ActivePlayerIds(gs)) < 2 THEN FALSE
    ELSE currentTime - gs.roundStartTime >= gs.roundTimeLimit * 1000

\* a variant of shouldProcessRound that answers no once an error was logged
ShouldProcessUnlessFailed(gs, currentTime) ==
    IF gs.roundStartTime = Null \/ ~HasPlayers(gs) \/ gs.roundTimeLimit = 0
    THEN FALSE
    ELSE IF Cardinality(ActivePlayerIds(gs)) < 2 THEN FALSE
    ELSE /\ events.status # "failure"
         /\ \/ currentTime - gs.roundStartTime >= gs.roundTimeLimit * 1000
            \/ allPlayersSubmittedBids(gs)

shouldProcessRound(gs, currentTime) ==
    IF gs.roundStartTime = Null \/ ~HasPlayers(gs) \/ gs.roundTimeLimit = 0
    THEN FALSE
    ELSE IF Cardinality(ActivePlayerIds(gs)) < 2 THEN FALSE
    ELSE \/ currentTime - gs.roundStartTime >= gs.roundTimeLimit * 1000
         \/ allPlayersSubmittedBids(gs)

\* a variant of SubmittedOrMaxBid with a penalty above maxBid
SubmittedOrMore(player, maxBid) ==
    IF player.hasSubmittedBid /\ IsNumber(player.currentBid)
    THEN player.currentBid
    ELSE maxBid + 1

\* a variant of SubmittedOrMaxBid without the penalty bid
StoredBid(player, maxBid) == player.currentBid

\* the bid an active player is settled at (twoPhase), and any player (single)
SubmittedOrMaxBid(player, maxBid) ==
    IF player.hasSubmittedBid /\ IsNumber(player.currentBid)
    THEN player.currentBid
    ELSE maxBid

\* the bid a timed-out player is settled at (twoPhase)
TimedOutBid(player, maxBid) ==
    IF IsNumber(player.currentBid) THEN player.currentBid ELSE maxBid

\* updatedBids of processGameRound
UpdatedBids(v, gs) ==
    [p \in DOMAIN gs.players |->
        IF v = "twoPhase" /\ gs.players[p].isTimedOut
        THEN TimedOutBid(gs.players[p], gs.maxBid)
        ELSE SubmittedOrMaxBid(gs.players[p], gs.maxBid)]

\* The market model (utils/gameCalculations, after section 4.1 of the
\* specification).  A share is the fraction num / den of the weights; the
\* weight of a bid stands for exp(-alpha * bid): positive, and the lower the
\* bid the higher.
Weight(bid) == 1 + MaxBid - bid

RECURSIVE SumOf(_, _)
SumOf(f, ids) ==
    IF ids = {} THEN 0
    ELSE LET p == CHOOSE q \in ids : TRUE
         IN  f[p] + SumOf(f, ids \ {p})

\* calculateAllMarketShares(bids)
calculateAllMarketShares(bids) ==
    LET weights == [p \in DOMAIN bids |-> Weight(bids[p])]
    IN  [p \in DOMAIN bids |->
            [num |-> weights[p], den |-> SumOf(weights, DOMAIN bids)]]

\* calculateAllProfits(bids, marketShares, costPerUnit):
\* (bid - cost) * share * marketSize
calculateAllProfits(bids, marketShares, costPerUnit) ==
    [p \in DOMAIN bids |->
        [num |-> (bids[p] - costPerUnit) * marketShares[p].num * MarketSize,
         den |-> marketShares[p].den]]

\* roundResult of processGameRound (timestamp left out); bids and
\* marketShares are the values computed once
RoundResultOf(v, gs) ==
    CHOOSE roundResult \in UNION
        {{[round |-> gs.currentRound, bids |-> bids,
           marketShares |-> marketShares,
           profits |-> calculateAllProfits(bids, marketShares, gs.costPerUnit)] :
              marketShares \in {calculateAllMarketShares(bids)}} :
            bids \in {UpdatedBids(v, gs)}} : TRUE

\* a variant of RoundIndex that takes the round number for the index
RoundNumber(gs) == gs.currentRound

\* Math.max(0, (gameState.currentRound || 1) - 1)
RoundIndex(gs) ==
    LET r == IF gs.currentRound = 0 THEN 1 ELSE gs.currentRound
    IN  IF r - 1 > 0 THEN r - 1 ELSE 0

\* a variant of IsLastRound that ends the game one round late
IsPastLastRound(gs) == gs.currentRound > gs.totalRounds

IsLastRound(gs) == gs.currentRound >= gs.totalRounds

\* a variant of PutRound that appends the round to the history
PushRound(history, idx, rr) ==
    [i \in DOMAIN history \cup {Cardinality(DOMAIN history)} |->
        IF i \in DOMAIN history THEN history[i] ELSE rr]

\* a variant of PutRound that replaces the whole history by the round
OnlyRound(history, idx, rr) == [i \in {idx} |-> rr]

\* updates[`gameState/roundHistory/${roundIndex}`] = roundResult
PutRound(history, idx, rr) ==
    [i \in DOMAIN history \cup {idx} |-> IF i = idx THEN rr ELSE history[i]]

----------------------------------------------------------------------------
(* The multi-path updates, applied to the document the store holds *)

\* paths gameState/players/{id}/currentBid and .../hasSubmittedBid, for the
\* players bids and flags are given for
WithPlayers(doc, bids, flags) ==
    [doc EXCEPT !.gameState.players =
        [p \in DOMAIN doc.gameState.players |->
            [doc.gameState.players[p] EXCEPT
                !.currentBid = IF p \in DOMAIN bids THEN bids[p] ELSE @,
                !.hasSubmittedBid = IF p \in DOMAIN flags THEN flags[p] ELSE @]]]

\* a variant of ProcessedFlag that clears the flag of every player
ClearedFlag(player) == FALSE

\* hasSubmittedBid as processGameRound (twoPhase) writes it back
ProcessedFlag(player) ==
    IF player.isTimedOut THEN player.hasSubmittedBid
    ELSE IF player.hasSubmittedBid /\ IsNumber(player.currentBid)
         THEN player.hasSubmittedBid
         ELSE FALSE

\* processGameRound (twoPhase), updateDatabase = true: the first update
ProcessUpdates(doc, gs) ==
    WithPlayers(doc, UpdatedBids("twoPhase", gs),
                [p \in DOMAIN gs.players |-> ProcessedFlag(gs.players[p])])

\* a variant of EndGameUpdates that switches the autopilot off as well
EndGameAndAutopilot(doc) ==
    [doc EXCEPT !.gameState.isEnded = TRUE,
                !.gameState.isActive = FALSE,
                !.gameState.autopilot = [enabled |-> FALSE, lastUpdateTime |-> Null],
                !.status = "completed"]

\* the branch of advanceGameState / processGameRound on the last round
EndGameUpdates(doc) ==
    [doc EXCEPT !.gameState.isEnded = TRUE,
                !.gameState.isActive = FALSE,
                !.status = "completed"]

\* currentBid as advanceGameState writes it: the round's bid, then null for
\* the players that are not timed out when the game goes on
AdvancedBids(gs, rr) ==
    [p \in DOMAIN rr.bids |->
        IF ~IsLastRound(gs) /\ p \in DOMAIN gs.players /\ ~gs.players[p].isTimedOut
        THEN Null
        ELSE rr.bids[p]]

\* advanceGameState (twoPhase): the second update
AdvanceUpdates(doc, gs, rr) ==
    LET d1 == WithPlayers(doc, AdvancedBids(gs, rr), <<>>)
        d2 == [d1 EXCEPT
                 !.gameState.roundHistory =
                     PutRound(doc.gameState.roundHistory, RoundIndex(gs), rr),
                 !.gameState.roundStartTime = Null]
    IN  IF IsLastRound(gs) THEN EndGameUpdates(d2)
        ELSE [d2 EXCEPT
                !.gameState.currentRound =
                    (IF gs.currentRound = 0 THEN 1 ELSE gs.currentRound) + 1,
                !.gameState.isActive = TRUE]

\* A profit is the fraction num / den; a sum of profits is kept as the sum of
\* the numerators for each denominator (0 is the empty sum).
ZeroProfit == [num |-> 0, den |-> 1]
\* -Infinity, the profit reduce() starts from
NegInfinity == [num |-> -1, den |-> 0]
\* a > b
Greater(a, b) == a.num * b.den > b.num * a.den

\* allRounds = [...(gameState.roundHistory || []), roundResult]
AllRounds(history, rr) ==
    [i \in 1..(Cardinality(DOMAIN history) + 1) |->
        IF (i - 1) \in DOMAIN history THEN history[i - 1] ELSE rr]

RoundPlayers(rounds) == UNION {DOMAIN rounds[i].profits : i \in DOMAIN rounds}

Denominators(rounds) ==
    UNION {{rounds[i].profits[p].den : p \in DOMAIN rounds[i].profits} :
              i \in DOMAIN rounds}

\* allProfits[playerId]: the player's profits added up over the rounds
PlayerProfits(rounds, p) ==
    [d \in Denominators(rounds) |->
        SumOf([i \in DOMAIN rounds |->
                  IF p \in DOMAIN rounds[i].profits /\ rounds[i].profits[p].den = d
                  THEN rounds[i].profits[p].num
                  ELSE 0],
              DOMAIN rounds)]

\* Object.values(allProfits).reduce((sum, profit) => sum + (profit || 0), 0)
TotalProfit(rounds) ==
    [d \in Denominators(rounds) |->
        SumOf([p \in RoundPlayers(rounds) |-> PlayerProfits(rounds, p)[d]],
              RoundPlayers(rounds))]

\* Math.max(...Object.values(round.profits || {}))
MaxProfit(round) ==
    IF DOMAIN round.profits = {} THEN NegInfinity
    ELSE LET best == CHOOSE p \in DOMAIN round.profits :
                        \A q \in DOMAIN round.profits :
                            ~Greater(round.profits[q], round.profits[p])
         IN  round.profits[best]

\* allRounds.reduce((best, round) => maxProfit > best.profit ? ... : best),
\* from round i on
RECURSIVE BestRoundFrom(_, _, _)
BestRoundFrom(rounds, i, best) ==
    IF i > Len(rounds) THEN best
    ELSE BestRoundFrom(rounds, i + 1,
             IF Greater(MaxProfit(rounds[i]), best.profit)
             THEN [round |-> rounds[i].round, profit |-> MaxProfit(rounds[i])]
             ELSE best)

BestRound(rounds) == BestRoundFrom(rounds, 1, [round |-> 0, profit |-> NegInfinity])

\* the totals processGameRound (single) adds to the update of the last
\* round; rounds is allRounds, computed once
WithTotals(doc, allRounds) ==
    CHOOSE updated \in
        {[doc EXCEPT !.gameState.totalProfit = TotalProfit(rounds),
                     !.gameState.bestRound = BestRound(rounds).round,
                     !.gameState.bestRoundProfit = BestRound(rounds).profit] :
            rounds \in {allRounds}} : TRUE

\* processGameRound (single): the one update of a settlement
SettleUpdates(doc, gs) ==
    LET rr == RoundResultOf("single", gs)
        d1 == WithPlayers(doc, [p \in DOMAIN gs.players |-> Null],
                               [p \in DOMAIN gs.players |-> FALSE])
        d2 == [d1 EXCEPT
                 !.gameState.roundHistory =
                     PutRound(doc.gameState.roundHistory, RoundIndex(gs), rr),
                 !.gameState.roundStartTime = Null]
    IN  IF IsLastRound(gs)
        THEN WithTotals(EndGameUpdates(d2), AllRounds(gs.roundHistory, rr))
        ELSE [d2 EXCEPT !.gameState.currentRound = gs.currentRound + 1]

\* every player rival to every other player
AllPlayAll(ids) == [p \in ids |-> ids \ {p}]

\* a variant of StartUpdates that assigns the rivals whatever is stored
StartUpdatesAllRivals(doc, gs, time) ==
    LET d1 == WithPlayers(doc, [p \in DOMAIN gs.players |-> Null],
                               [p \in DOMAIN gs.players |-> FALSE])
    IN  [d1 EXCEPT !.gameState.roundStartTime = time,
                   !.gameState.isActive = TRUE,
                   !.gameState.rivalries = AllPlayAll(DOMAIN gs.players)]

\* a variant of StartUpdates that resets the players who are not timed out
StartUpdatesOfActive(doc, gs, time) ==
    LET d1 == WithPlayers(doc, [p \in ActivePlayerIds(gs) |-> Null],
                               [p \in ActivePlayerIds(gs) |-> FALSE])
        d2 == [d1 EXCEPT !.gameState.roundStartTime = time,
                         !.gameState.isActive = TRUE]
    IN  IF DOMAIN gs.rivalries = {}
        THEN [d2 EXCEPT !.gameState.rivalries = AllPlayAll(DOMAIN gs.players)]
        ELSE d2

\* startNewRound: its update (built when at least 2 players are active)
StartUpdates(doc, gs, time) ==
    LET d1 == WithPlayers(doc, [p \in DOMAIN gs.players |-> Null],
                               [p \in DOMAIN gs.players |-> FALSE])
        d2 == [d1 EXCEPT !.gameState.roundStartTime = time,
                         !.gameState.isActive = TRUE]
    IN  IF DOMAIN gs.rivalries = {}
        THEN [d2 EXCEPT !.gameState.rivalries = AllPlayAll(DOMAIN gs.players)]
        ELSE d2

----------------------------------------------------------------------------
(* The per-game callback of processAutopilot *)

\* between the two updates of a settlement (twoPhase); `changed` records
\* whether the first update changed the stored document
Advancing(pending, changed) ==
    [pc |-> "advance", gs |-> pending.gs, time |-> pending.time, changed |-> changed]

Idle == [pc |-> "idle"]
\* after the settlement the callback keeps nothing of its snapshot
Rereading == [pc |-> "reread"]
\* what the rest of the callback reads of the gameState it was given
Captured(gs) ==
    [players |-> gs.players, currentRound |-> gs.currentRound,
     totalRounds |-> gs.totalRounds, maxBid |-> gs.maxBid,
     costPerUnit |-> gs.costPerUnit, rivalries |-> gs.rivalries,
     roundHistory |-> <<>>]

\* gameState.roundHistory is read by the settlement of the last round in the
\* second revision only (allRounds)
HistoryRead(pc, gs) ==
    IF pc = "settle" /\ IsLastRound(gs) THEN gs.roundHistory ELSE <<>>

Pending(pc, gs, time) ==
    [pc |-> pc,
     gs |-> [Captured(gs) EXCEPT !.roundHistory = HistoryRead(pc, gs)],
     time |-> time]

\* a variant of StartNewRound without the minimum of 2 active players
StartNewRoundUnchecked(gs, time) ==
    IF ~HasPlayers(gs) THEN Pending("invalid", gs, time)
    ELSE Pending("start", gs, time)

\* startNewRound up to its await: it throws on a state without players, and
\* has nothing to do with fewer than 2 active players
StartNewRound(gs, time) ==
    IF ~HasPlayers(gs) THEN Pending("invalid", gs, time)
    ELSE IF Cardinality(ActivePlayerIds(gs)) < 2 THEN Idle
    ELSE Pending("start", gs, time)

\* processGameRound up to its await.  The second revision throws on a state
\* without players or maxBid.  The first checks nothing: its update is
\* rejected before anything is written when a value of its patch is
\* undefined, which is the case when a player is settled at a maxBid that is
\* not there.
processGameRound(v, gs, time) ==
    IF v = "single"
    THEN IF ~HasPlayers(gs) \/ ~IsNumber(gs.maxBid)
         THEN Pending("invalid", gs, time)
         ELSE Pending("settle", gs, time)
    ELSE IF \E p \in DOMAIN gs.players : ~IsNumber(UpdatedBids(v, gs)[p])
         THEN Pending("invalid", gs, time)
         ELSE Pending("process", gs, time)

\* a variant of Dispatch that settles a running round whether due or not
DispatchAnyRound(v, doc, time) ==
    LET gs == doc.gameState IN
    IF ~gs.isActive THEN Idle
    ELSE IF ~gs.autopilot.enabled THEN Idle
    ELSE IF ~(gs.hasGameStarted /\ ~gs.isEnded) THEN Idle
    ELSE IF gs.roundStartTime = Null THEN StartNewRound(gs, time)
    ELSE processGameRound(v, gs, time)

\* a variant of Dispatch that does not look at autopilot.enabled
DispatchAnyGame(v, doc, time) ==
    LET gs == doc.gameState IN
    IF ~gs.isActive THEN Idle
    ELSE IF ~(gs.hasGameStarted /\ ~gs.isEnded) THEN Idle
    ELSE IF gs.roundStartTime = Null THEN StartNewRound(gs, time)
    ELSE IF shouldProcessRound(gs, time)
         THEN processGameRound(v, gs, time)
         ELSE Idle

\* a variant of Dispatch that settles a round once all bids are in, whether
\* the round was started or not
DispatchAnyBids(v, doc, time) ==
    LET gs == doc.gameState IN
    IF ~gs.isActive THEN Idle
    ELSE IF ~gs.autopilot.enabled THEN Idle
    ELSE IF ~(gs.hasGameStarted /\ ~gs.isEnded) THEN Idle
    ELSE IF HasPlayers(gs) /\ allPlayersSubmittedBids(gs)
         THEN processGameRound(v, gs, time)
    ELSE IF gs.roundStartTime = Null THEN StartNewRound(gs, time)
    ELSE IF shouldProcessRound(gs, time)
         THEN processGameRound(v, gs, time)
         ELSE Idle

\* the callback from the snapshot of the query up to its first await
Dispatch(v, doc, time) ==
    LET gs == doc.gameState IN
    IF ~gs.isActive THEN Idle                      \* not in the query's result
    ELSE IF ~gs.autopilot.enabled THEN Idle
    ELSE IF ~(gs.hasGameStarted /\ ~gs.isEnded) THEN Idle
    ELSE IF gs.roundStartTime = Null THEN StartNewRound(gs, time)
    ELSE IF shouldProcessRound(gs, time)
         THEN processGameRound(v, gs, time)
         ELSE Idle

\* whether the callback starts the next round after re-reading the state
StartsNextRound(v, updatedState) ==
    IF v = "twoPhase"
    THEN ~updatedState.isEnded /\ updatedState.currentRound < updatedState.totalRounds
    ELSE ~updatedState.isEnded

NoEvent == [gameId |-> "", action |-> "", status |-> "", round |-> 0]
ErrorEvent(g, gs) ==
    [gameId |-> g, action |-> "error", status |-> "failure", round |-> gs.currentRound]
\* the event of a settlement (single), with its details: updatedBids holds a
\* bid for every player, so timeoutBids is 0
SuccessEvent(g, gs) ==
    [gameId |-> g, action |-> "process_round", status |-> "success",
     round |-> gs.currentRound,
     playerCount |-> Cardinality(DOMAIN gs.players),
     processedBids |-> Cardinality(DOMAIN UpdatedBids("single", gs)),
     timeoutBids |-> Cardinality(DOMAIN gs.players)
                        - Cardinality(DOMAIN UpdatedBids("single", gs))]

----------------------------------------------------------------------------
(* Actions *)

SlotFree(t) == \A g \in DOMAIN task[t] : task[t][g].pc = "idle"

\* invocations are interchangeable: a new one takes the first free slot
FirstFreeSlot ==
    IF SlotFree("tickA") THEN "tickA" ELSE "tickB"

\* an invocation of processAutopilot: the query and each callback's first part
Tick(t) ==
    /\ t \in DOMAIN task
    /\ SlotFree(t)
    /\ t = FirstFreeSlot
    /\ task' = [task EXCEPT ![t] = [g \in DOMAIN db |-> Dispatch(variant, db[g], now)]]
    /\ \E g \in DOMAIN db : task'[t][g].pc # "idle"
    /\ UNCHANGED <<variant, db, now, events, calls, reply, undefinedGame, microtasks>>

\* await gameRef.update(updates) of startNewRound lands
StartWrite(t, g) ==
    /\ t \in DOMAIN task /\ g \in DOMAIN db
    /\ task[t][g].pc = "start"
    /\ db' = [db EXCEPT ![g] = StartUpdates(db[g], task[t][g].gs, task[t][g].time)]
    /\ task' = [task EXCEPT ![t][g] = Idle]
    /\ UNCHANGED <<variant, now, events, calls, reply, undefinedGame, microtasks>>

\* await gameRef.update(updates) of processGameRound (twoPhase) lands
ProcessWrite(t, g) ==
    /\ t \in DOMAIN task /\ g \in DOMAIN db
    /\ task[t][g].pc = "process"
    /\ db' = [db EXCEPT ![g] = ProcessUpdates(db[g], task[t][g].gs)]
    /\ task' = [task EXCEPT ![t][g] =
                  Advancing(task[t][g], db'[g] # db[g])]
    /\ UNCHANGED <<variant, now, events, calls, reply, undefinedGame, microtasks>>

\* await gameRef.update(updates) of advanceGameState (twoPhase) lands
AdvanceWrite(t, g) ==
    /\ t \in DOMAIN task /\ g \in DOMAIN db
    /\ task[t][g].pc = "advance"
    /\ db' = [db EXCEPT ![g] =
                AdvanceUpdates(db[g], task[t][g].gs,
                               RoundResultOf("twoPhase", task[t][g].gs))]
    /\ task' = [task EXCEPT ![t][g] = Rereading]
    /\ UNCHANGED <<variant, now, events, calls, reply, undefinedGame, microtasks>>

\* await gameRef.update(updates) of processGameRound (single) lands, and the
\* success event is logged
SettleWrite(t, g) ==
    /\ t \in DOMAIN task /\ g \in DOMAIN db
    /\ task[t][g].pc = "settle"
    /\ db' = [db EXCEPT ![g] = SettleUpdates(db[g], task[t][g].gs)]
    /\ events' = SuccessEvent(g, task[t][g].gs)
    /\ task' = [task EXCEPT ![t][g] = Rereading]
    /\ UNCHANGED <<variant, now, calls, reply, undefinedGame, microtasks>>

\* the state is read again and the next round started in the same invocation
Reread(t, g) ==
    /\ t \in DOMAIN task /\ g \in DOMAIN db
    /\ task[t][g].pc = "reread"
    /\ task' = [task EXCEPT ![t][g] =
                  IF StartsNextRound(variant, db[g].gameState)
                  THEN StartNewRound(db[g].gameState, now)
                  ELSE Idle]
    /\ UNCHANGED <<variant, db, now, events, calls, reply, undefinedGame, microtasks>>

\* a variant of WriteFails in which the error ends the whole invocation
WriteFailsForAll(t, g) ==
    /\ t \in DOMAIN task /\ g \in DOMAIN db
    /\ task[t][g].pc \in {"start", "process", "advance", "settle", "invalid"}
    /\ events' = ErrorEvent(g, task[t][g].gs)
    /\ task' = [task EXCEPT ![t] = [h \in DOMAIN db |-> Idle]]
    /\ UNCHANGED <<variant, db, now, calls, reply, undefinedGame, microtasks>>

\* a pending update is rejected by the store, or startNewRound has thrown:
\* the error reaches the catch of the callback, which logs it; nothing is
\* written
WriteFails(t, g) ==
    /\ t \in DOMAIN task /\ g \in DOMAIN db
    /\ task[t][g].pc \in {"start", "process", "advance", "settle", "invalid"}
    /\ events' = ErrorEvent(g, task[t][g].gs)
    /\ task' = [task EXCEPT ![t][g] = Idle]
    /\ UNCHANGED <<variant, db, now, calls, reply, undefinedGame, microtasks>>

\* the two players of the two-player game are interchangeable (same bid,
\* never timed out): of every pair of mirrored orders only the one where
\* player4 bids first is explored
BidsInTurn(gs, p) ==
    p = "player5" => gs.players["player4"].hasSubmittedBid

\* the bids a player may submit: the last player of the second game may bid
\* out of range
BidsOf(p) == IF p = "player7" THEN {SubmittedBid, OverBid} ELSE {SubmittedBid}

\* a player submits a bid (the storage adapter's submitBid); submitting the
\* same bid again changes nothing
SubmitBid(g, p, bid) ==
    /\ g \in DOMAIN db
    /\ p \in DOMAIN db[g].gameState.players
    /\ ~db[g].gameState.players[p].hasSubmittedBid
    /\ BidsInTurn(db[g].gameState, p)
    /\ db' = [db EXCEPT ![g].gameState.players[p] =
                [@ EXCEPT !.currentBid = bid, !.hasSubmittedBid = TRUE]]
    /\ UNCHANGED <<variant, task, now, events, calls, reply, undefinedGame, microtasks>>

\* players are interchangeable: the admin times out the last ones of the
\* three-player game
TimeoutCandidates == {"player2", "player3", "player7"}

\* an admin times a player out (the storage adapter's timeoutPlayer)
TimeoutPlayer(g, p) ==
    /\ g \in DOMAIN db
    /\ p \in DOMAIN db[g].gameState.players
    /\ p \in TimeoutCandidates
    /\ ~db[g].gameState.players[p].isTimedOut
    /\ db' = [db EXCEPT ![g].gameState.players[p].isTimedOut = TRUE]
    /\ UNCHANGED <<variant, task, now, events, calls, reply, undefinedGame, microtasks>>

\* a variant of AutopilotState that stamps the time when disabling too
AutopilotStamped(enabled, time) ==
    [enabled |-> enabled, lastUpdateTime |-> time]

\* gameState/autopilot as toggleAutopilot sets it
AutopilotState(enabled, time) ==
    [enabled |-> enabled, lastUpdateTime |-> IF enabled THEN time ELSE Null]

ToggleEvent(g, status) ==
    [gameId |-> g, action |-> "toggle", status |-> status, round |-> 0]

\* request.data without a gameId
NoGameId == "undefined"

\* the call, the admin claim of its caller, and the error thrown ("": none)
NoReply == [fn |-> "", gameId |-> "", admin |-> FALSE, error |-> ""]
Reply(fn, g, isAdmin, error) ==
    [fn |-> fn, gameId |-> g, admin |-> isAdmin, error |-> error]

\* if (!gameId) throw: the first revision only
ChecksGameId(v) == v = "twoPhase"

\* a call of toggleAutopilot({gameId, enabled}): a caller without the admin
\* claim is turned away before anything happens, and so is (first revision)
\* a call without gameId; otherwise the autopilot node of games/${gameId} is
\* set and the toggle logged, or the set is rejected and the failure logged
ToggleAutopilot(g, enabled, isAdmin, stored) ==
    /\ g \in DOMAIN db \cup {NoGameId}
    /\ calls > 0
    /\ calls' = calls - 1
    /\ IF ~isAdmin
       THEN /\ reply' = Reply("toggleAutopilot", g, FALSE, "Only admins can toggle autopilot")
            /\ UNCHANGED <<db, events, undefinedGame, microtasks>>
       ELSE IF g = NoGameId /\ ChecksGameId(variant)
       THEN /\ reply' = Reply("toggleAutopilot", g, TRUE, "No game ID provided")
            /\ UNCHANGED <<db, events, undefinedGame, microtasks>>
       ELSE IF stored
       THEN /\ IF g = NoGameId
               THEN /\ undefinedGame' = <<AutopilotState(enabled, now)>>
                    /\ UNCHANGED db
               ELSE /\ db' = [db EXCEPT ![g].gameState.autopilot =
                                AutopilotState(enabled, now)]
                    /\ UNCHANGED undefinedGame
            /\ events' = ToggleEvent(g, "success")
            /\ reply' = Reply("toggleAutopilot", g, TRUE, "")
       ELSE /\ events' = ToggleEvent(g, "failure")
            /\ reply' = Reply("toggleAutopilot", g, TRUE, "Failed to toggle autopilot")
            /\ UNCHANGED <<db, undefinedGame, microtasks>>
    /\ UNCHANGED <<variant, task, now, microtasks>>

\* the admin ends the game by hand (endGame of the game context)
EndGame(g) ==
    /\ g \in DOMAIN db
    /\ calls > 0
    /\ calls' = calls - 1
    /\ db' = [db EXCEPT ![g].gameState.isActive = FALSE,
                        ![g].gameState.isEnded = TRUE]
    /\ reply' = Reply("endGame", g, TRUE, "")
    /\ UNCHANGED <<variant, task, now, events, undefinedGame, microtasks>>

\* time passes
AdvanceTime ==
    /\ now < ClockStep * (1 + MaxClock)
    /\ now' = now + ClockStep
    /\ UNCHANGED <<variant, db, task, events, calls, reply, undefinedGame, microtasks>>

----------------------------------------------------------------------------
(* Specification *)

NewPlayer == [currentBid |-> Null, hasSubmittedBid |-> FALSE, isTimedOut |-> FALSE]

\* the game after startGame, the registration of the players, and
\* toggleAutopilot(gameId, true)
StartedGame(players, rounds, time) ==
    [status |-> "active",
     gameState |->
        [hasGameStarted |-> TRUE, isActive |-> TRUE, isEnded |-> FALSE,
         currentRound |-> 1, totalRounds |-> rounds,
         roundTimeLimit |-> RoundTimeLimit, roundStartTime |-> Null,
         maxBid |-> MaxBid, costPerUnit |-> CostPerUnit,
         players |-> [p \in players |-> NewPlayer],
         roundHistory |-> <<>>,
         totalProfit |-> <<>>, bestRound |-> 0, bestRoundProfit |-> ZeroProfit,
         rivalries |-> <<>>,
         autopilot |-> [enabled |-> TRUE, lastUpdateTime |-> time]]]

InitWith(slots, games, players, rounds) ==
    /\ variant \in Variants
    /\ now = ClockStep
    /\ db \in [games -> {StartedGame(players, r, ClockStep) : r \in rounds}]
    /\ task = [t \in slots |-> [g \in games |-> Idle]]
    /\ events = NoEvent
    /\ calls = 0
    /\ reply = NoReply
    /\ undefinedGame = <<>>
    /\ microtasks = <<>>

\* one invocation at a time, three players
InitSequential == InitWith({"tickA"}, {"game1"}, Players, 1..MaxRounds)

\* two invocations may overlap, two players
InitOverlap == InitWith(Slots, {"game1"}, TwoPlayers, 1..MaxRounds)

\* a game whose autopilot was never switched on
WithoutAutopilot(doc) ==
    [doc EXCEPT !.gameState.autopilot = AutopilotState(FALSE, Null)]

\* one invocation at a time, one game of one round, and an admin who toggles
\* the autopilot and ends the game
InitAdmin ==
    /\ variant \in Variants
    /\ now = ClockStep
    /\ db = [g \in {"game1"} |-> StartedGame(TwoPlayers, 1, ClockStep)]
    /\ task = [t \in {"tickA"} |-> [g \in {"game1"} |-> Idle]]
    /\ events = NoEvent
    /\ calls = MaxCalls
    /\ reply = NoReply
    /\ undefinedGame = <<>>
    /\ microtasks = <<>>

\* a game created without maxBid
WithoutMaxBid(doc) == [doc EXCEPT !.gameState.maxBid = Null]

\* rivalries assigned by the admin: player6 against player7, one way
AssignedRivalries == [p \in {"player6"} |-> {"player7"}]

\* a game whose rivalries the admin has assigned
WithRivalries(doc) == [doc EXCEPT !.gameState.rivalries = AssignedRivalries]

\* the second game: with no, one or two players registered, its autopilot
\* on or off; or with two players and no maxBid, or assigned rivalries
SecondGames ==
    LET started == {StartedGame(ps, 1, ClockStep) : ps \in SUBSET OtherPlayers}
    IN  started \cup {WithoutAutopilot(doc) : doc \in started}
                \cup {WithoutMaxBid(StartedGame(OtherPlayers, 1, ClockStep)),
                      WithRivalries(StartedGame(OtherPlayers, 1, ClockStep))}

\* one invocation at a time, two games of one round
InitTwoGames ==
    /\ variant \in Variants
    /\ now = ClockStep
    /\ \E second \in SecondGames :
          db = [g \in Games |->
                  IF g = "game1" THEN StartedGame(TwoPlayers, 1, ClockStep)
                  ELSE second]
    /\ task = [t \in {"tickA"} |-> [g \in Games |-> Idle]]
    /\ events = NoEvent
    /\ calls = 0
    /\ reply = NoReply
    /\ undefinedGame = <<>>
    /\ microtasks = <<>>

InitScenarios == InitSequential \/ InitAdmin \/ InitTwoGames

Init == InitScenarios \/ InitOverlap

Next ==
    \/ \E t \in Slots : Tick(t)
    \/ \E t \in Slots, g \in Games : StartWrite(t, g)
    \/ \E t \in Slots, g \in Games : ProcessWrite(t, g)
    \/ \E t \in Slots, g \in Games : AdvanceWrite(t, g)
    \/ \E t \in Slots, g \in Games : SettleWrite(t, g)
    \/ \E t \in Slots, g \in Games : Reread(t, g)
    \/ \E t \in Slots, g \in Games : WriteFails(t, g)
    \/ \E g \in Games, p \in Players \cup TwoPlayers \cup OtherPlayers :
          \E bid \in BidsOf(p) : SubmitBid(g, p, bid)
    \/ \E g \in Games, p \in TimeoutCandidates : TimeoutPlayer(g, p)
    \/ \E g \in Games \cup {NoGameId}, enabled, isAdmin, stored \in BOOLEAN :
          ToggleAutopilot(g, enabled, isAdmin, stored)
    \/ \E g \in Games : EndGame(g)
    \/ AdvanceTime

Spec == Init /\ [][Next]_vars

\* overlapping invocations on a game of one round more, next to the
\* three-player game
InitLong == InitWith(Slots, {"game1"}, TwoPlayers, {MaxRounds + 1}) \/ InitScenarios

SpecLong == InitLong /\ [][Next]_vars

\* one invocation at a time
SpecSequential == InitSequential /\ [][Next]_vars

\* one invocation at a time, with the admin's calls and a second game
SpecScenarios == InitScenarios /\ [][Next]_vars

----------------------------------------------------------------------------
(* Steps and states the claims speak of *)

\* the update of a settlement that stores the round lands in this step
HistoryWritten(t, g) ==
    /\ task[t][g].pc \in {"advance", "settle"}
    /\ task'[t][g].pc = "reread"

----------------------------------------------------------------------------
(* C1 *)

\* C1: a round is never settled twice: whenever a settlement stores its round
\* at roundHistory[r-1], that index has not been written before.
C1_RoundSettledOnce ==
    [][\A t \in DOMAIN task, g \in DOMAIN db :
          HistoryWritten(t, g) =>
              RoundIndex(task[t][g].gs) \notin DOMAIN db[g].gameState.roundHistory]_vars

----------------------------------------------------------------------------
(* C2 *)

\* C2: in every step currentRound stays or grows by exactly 1, and it changes
\* only in the step of a settlement of a round that is not the last.
C2_CurrentRoundStepsByOne ==
    [][\A g \in DOMAIN db :
          LET old == db[g].gameState.currentRound
              new == db'[g].gameState.currentRound
          IN  /\ new = old \/ new = old + 1
              /\ new # old =>
                    \E t \in DOMAIN task :
                        HistoryWritten(t, g) /\ ~IsLastRound(task[t][g].gs)]_vars

----------------------------------------------------------------------------
(* C3 *)

\* an update of an invocation lands on game g in this step
TickWrites(g) ==
    \E t \in DOMAIN task :
        /\ task[t][g].pc \in {"start", "process", "advance", "settle"}
        /\ task'[t][g].pc # task[t][g].pc
        /\ events' = events \/ task'[t][g].pc = "reread"

\* C3: once the game has ended, currentRound equals totalRounds and no
\* invocation writes roundHistory, currentRound, roundStartTime or a player
\* field of the game any more.
C3_NoWriteAfterEnd ==
    [][\A g \in DOMAIN db :
          db[g].gameState.isEnded =>
              /\ db[g].gameState.currentRound = db[g].gameState.totalRounds
              /\ ~TickWrites(g)]_vars

----------------------------------------------------------------------------
(* C4 *)

\* the bids a settlement resolved are in the players' currentBid
ResolvedBidsStored(doc, gs) ==
    \A p \in DOMAIN gs.players :
        doc.gameState.players[p].currentBid = UpdatedBids("twoPhase", gs)[p]

\* C4: no reachable state shows part of a settlement: the resolved bids
\* written to the players while the round is not stored, the round still
\* running and the counter not advanced.
C4_SettlementAtomic ==
    \A t \in DOMAIN task, g \in DOMAIN db :
        ~ /\ task[t][g].pc = "advance"
          /\ task[t][g].changed
          /\ ResolvedBidsStored(db[g], task[t][g].gs)
          /\ RoundIndex(task[t][g].gs) \notin DOMAIN db[g].gameState.roundHistory
          /\ db[g].gameState.roundStartTime # Null
          /\ db[g].gameState.currentRound = task[t][g].gs.currentRound

----------------------------------------------------------------------------
(* C5 *)

\* an update of a settlement is rejected in this step
SettlementFails(t, g) ==
    /\ task[t][g].pc \in {"process", "advance", "settle"}
    /\ task'[t][g].pc = "idle"

\* C5: when a settlement fails, it has changed nothing in the stored game,
\* and the error reaches the scheduler's callback, which logs the failure.
C5_FailedSettlementWritesNothing ==
    [][\A t \in DOMAIN task, g \in DOMAIN db :
          SettlementFails(t, g) =>
              /\ db'[g] = db[g]
              /\ task[t][g].pc = "advance" => ~task[t][g].changed
              /\ events' = ErrorEvent(g, task[t][g].gs)]_vars

----------------------------------------------------------------------------
(* C6 *)

HasPendingWrite(t, g) ==
    task[t][g].pc \in {"start", "process", "advance", "settle"}

\* C6: no two invocations hold a snapshot of the same game with a pending
\* startNewRound or settlement update each.
C6_NoOverlappingInvocations ==
    \A g \in DOMAIN db :
        \A t1, t2 \in DOMAIN task :
            HasPendingWrite(t1, g) /\ HasPendingWrite(t2, g) => t1 = t2

----------------------------------------------------------------------------
(* C7 *)

\* the round a settlement stores in this step
StoredRound(t, g) ==
    db'[g].gameState.roundHistory[task[t][g].gs.currentRound - 1]

StoresRound(t, g) ==
    /\ HistoryWritten(t, g)
    /\ (task[t][g].gs.currentRound - 1) \in DOMAIN db'[g].gameState.roundHistory

\* C7: the bid a settlement records for a player that is not timed out is the
\* player's currentBid if the player has submitted a numeric bid, and the
\* game's maxBid otherwise.
C7_ActiveBidOrPenalty ==
    [][\A t \in DOMAIN task, g \in DOMAIN db :
          HistoryWritten(t, g) =>
              /\ StoresRound(t, g)
              /\ \A p \in DOMAIN task[t][g].gs.players :
                    LET player == task[t][g].gs.players[p] IN
                    ~player.isTimedOut =>
                        StoredRound(t, g).bids[p] =
                            IF player.hasSubmittedBid /\ player.currentBid # Null
                            THEN player.currentBid
                            ELSE task[t][g].gs.maxBid]_vars

\* a stored round holds the own bid of one player that is not timed out and
\* the penalty bid of another
C7_Witness ==
    \E g \in DOMAIN db :
        \E i \in DOMAIN db[g].gameState.roundHistory :
            \E p, q \in DOMAIN db[g].gameState.players :
                /\ ~db[g].gameState.players[p].isTimedOut
                /\ ~db[g].gameState.players[q].isTimedOut
                /\ db[g].gameState.roundHistory[i].bids[p] = SubmittedBid
                /\ db[g].gameState.roundHistory[i].bids[q] = MaxBid

----------------------------------------------------------------------------
(* C8 *)

\* an update of a settlement lands in this step
SettlementWrites(t, g) ==
    /\ task[t][g].pc \in {"process", "advance", "settle"}
    /\ task'[t][g].pc \in {"advance", "reread"}
    /\ task'[t][g].pc # task[t][g].pc

\* C8: for a timed-out player the settlement records the player's currentBid
\* if it is a number and maxBid otherwise, whatever hasSubmittedBid is, and
\* no update of the settlement changes the player's hasSubmittedBid.
C8_TimedOutBidAndFlag ==
    [][\A t \in DOMAIN task, g \in DOMAIN db :
          \A p \in DOMAIN db[g].gameState.players :
              LET gs == task[t][g].gs IN
              SettlementWrites(t, g) /\ gs.players[p].isTimedOut =>
                  /\ HistoryWritten(t, g) =>
                        /\ StoresRound(t, g)
                        /\ StoredRound(t, g).bids[p] =
                              IF gs.players[p].currentBid # Null
                              THEN gs.players[p].currentBid
                              ELSE gs.maxBid
                  /\ db'[g].gameState.players[p].hasSubmittedBid \in
                        {db[g].gameState.players[p].hasSubmittedBid,
                         gs.players[p].hasSubmittedBid}]_vars

----------------------------------------------------------------------------
(* C9 *)

\* C9: the settlement of a round with currentRound >= totalRounds sets
\* isEnded, clears isActive, sets the status to "completed" and leaves
\* currentRound as it is.
C9_LastRoundEndsGame ==
    [][\A t \in DOMAIN task, g \in DOMAIN db :
          /\ HistoryWritten(t, g)
          /\ task[t][g].gs.currentRound >= task[t][g].gs.totalRounds
          => /\ db'[g].gameState.isEnded
             /\ ~db'[g].gameState.isActive
             /\ db'[g].status = "completed"
             /\ db'[g].gameState.currentRound = db[g].gameState.currentRound]_vars

\* a game ended by the settlement of its last round
C9_Witness ==
    \E g \in DOMAIN db :
        /\ db[g].gameState.isEnded
        /\ ~db[g].gameState.isActive
        /\ db[g].status = "completed"
        /\ db[g].gameState.currentRound = db[g].gameState.totalRounds
        /\ (db[g].gameState.totalRounds - 1) \in DOMAIN db[g].gameState.roundHistory

----------------------------------------------------------------------------
(* C10 *)

\* C10: the settlement of a round with currentRound < totalRounds sets
\* currentRound to the settled round + 1, keeps a running game active and
\* not ended, stores the round's result, with the settled round's number, at
\* roundHistory[round - 1], and clears roundStartTime.
C10_RoundAdvances ==
    [][\A t \in DOMAIN task, g \in DOMAIN db :
          /\ HistoryWritten(t, g)
          /\ task[t][g].gs.currentRound < task[t][g].gs.totalRounds
          => /\ db'[g].gameState.currentRound = task[t][g].gs.currentRound + 1
             /\ ~db[g].gameState.isEnded =>
                   db'[g].gameState.isActive /\ ~db'[g].gameState.isEnded
             /\ StoresRound(t, g)
             /\ StoredRound(t, g).round = task[t][g].gs.currentRound
             /\ db'[g].gameState.roundStartTime = Null]_vars

\* round 1 of a longer game is settled and round 2 not yet started
C10_Witness ==
    \E g \in DOMAIN db :
        /\ db[g].gameState.currentRound = 2
        /\ db[g].gameState.totalRounds > 1
        /\ 0 \in DOMAIN db[g].gameState.roundHistory
        /\ db[g].gameState.roundHistory[0].round = 1
        /\ db[g].gameState.roundStartTime = Null
        /\ db[g].gameState.isActive
        /\ ~db[g].gameState.isEnded

----------------------------------------------------------------------------
(* C11 *)

\* at least 2 players of the state are not timed out
EnoughActive(gs) ==
    Cardinality({p \in DOMAIN gs.players : ~gs.players[p].isTimedOut}) >= 2

\* every player that is not timed out has hasSubmittedBid === true
AllActiveSubmitted(gs) ==
    \A p \in DOMAIN gs.players :
        ~gs.players[p].isTimedOut => gs.players[p].hasSubmittedBid

\* the round's time limit has elapsed at time t
TimeIsUp(gs, t) ==
    /\ gs.roundStartTime # Null
    /\ t - gs.roundStartTime >= gs.roundTimeLimit * 1000

\* C11 as stated: shouldProcessRound(state, now) is true if and only if the
\* game has at least 2 active players and either the time limit has elapsed
\* or every active player has submitted.
C11_AsStated ==
    \A g \in DOMAIN db :
        shouldProcessRound(db[g].gameState, now) <=>
            /\ EnoughActive(db[g].gameState)
            /\ TimeIsUp(db[g].gameState, now) \/ AllActiveSubmitted(db[g].gameState)

\* C11: shouldProcessRound(state, now) is true if and only if roundStartTime
\* and roundTimeLimit are present, the game has at least 2 active players,
\* and either the time limit has elapsed or every active player has
\* submitted.
C11_ShouldProcessRoundIff ==
    \A g \in DOMAIN db :
        shouldProcessRound(db[g].gameState, now) <=>
            /\ db[g].gameState.roundStartTime # Null
            /\ db[g].gameState.roundTimeLimit # 0
            /\ EnoughActive(db[g].gameState)
            /\ TimeIsUp(db[g].gameState, now) \/ AllActiveSubmitted(db[g].gameState)

\* a tick has found a round due before its time limit, every active player
\* having submitted
C11_Witness ==
    \E t \in DOMAIN task, g \in DOMAIN db :
        /\ task[t][g].pc \in {"process", "settle"}
        /\ task[t][g].time = now
        /\ db[g].gameState.players = task[t][g].gs.players
        /\ db[g].gameState.roundStartTime # Null
        /\ ~TimeIsUp(db[g].gameState, now)
        /\ AllActiveSubmitted(db[g].gameState)

----------------------------------------------------------------------------
(* C12 *)

\* the callback of invocation t takes up game g in this step: at the query,
\* or after the re-read that follows a settlement
TakesUp(t, g) ==
    /\ task[t][g].pc \in {"idle", "reread"}
    /\ task'[t][g] # task[t][g]

\* an update of invocation t changes the document of game g in this step
UpdateLands(t, g) ==
    /\ task[t][g].pc \in {"start", "process", "advance", "settle"}
    /\ task'[t][g].pc # task[t][g].pc
    /\ db'[g] # db[g]

\* C12: a tick that finds a game with fewer than 2 active players prepares no
\* update for it, whether its round is not started or running, overdue or
\* not; and every update that changes a game was built from a state with at
\* least 2 active players.
C12_TooFewPlayersNoMutation ==
    [][\A t \in DOMAIN task, g \in DOMAIN db :
          /\ TakesUp(t, g) /\ ~EnoughActive(db[g].gameState) =>
                /\ task'[t][g].pc \in {"idle", "invalid"}
                /\ db'[g] = db[g]
          /\ UpdateLands(t, g) => EnoughActive(task[t][g].gs)]_vars

\* an invocation that is at work on the first game has left alone the second,
\* whose round is overdue with fewer than 2 active players
C12_Witness ==
    \E t \in DOMAIN task :
        /\ DOMAIN db = Games
        /\ task[t]["game1"].pc \in {"process", "settle"}
        /\ task[t]["game1"].time = now
        /\ task[t]["game2"].pc = "idle"
        /\ db["game2"].gameState.autopilot.enabled
        /\ ~db["game2"].gameState.isEnded
        /\ TimeIsUp(db["game2"].gameState, now)
        /\ ~EnoughActive(db["game2"].gameState)

----------------------------------------------------------------------------
(* C13 *)

\* the games a tick works on
Eligible(gs) ==
    gs.autopilot.enabled /\ gs.hasGameStarted /\ ~gs.isEnded

\* C13: an invocation takes up a game at its query only if the game it reads
\* has autopilot.enabled and hasGameStarted set and isEnded not set, and a
\* step of an invocation changes the document of a game only by an update
\* of a callback that took the game up.
C13_OnlyEligibleGamesMutated ==
    [][\A g \in DOMAIN db :
          /\ \A t \in DOMAIN task :
                task[t][g].pc = "idle" /\ task'[t][g].pc # "idle" =>
                    Eligible(db[g].gameState) /\ db'[g] = db[g]
          /\ task' # task /\ db'[g] # db[g] =>
                \E t \in DOMAIN task : UpdateLands(t, g)]_vars

\* an invocation has taken up the first game and left alone the second,
\* whose autopilot is off, with 2 players and its round to start
C13_Witness ==
    \E t \in DOMAIN task :
        /\ DOMAIN db = Games
        /\ task[t]["game1"].pc = "start"
        /\ task[t]["game2"].pc = "idle"
        /\ ~db["game2"].gameState.autopilot.enabled
        /\ db["game2"].gameState.isActive
        /\ db["game2"].gameState.roundStartTime = Null
        /\ EnoughActive(db["game2"].gameState)

----------------------------------------------------------------------------
(* C14 *)

\* the round of the state is due at time t
Due(gs, t) ==
    /\ EnoughActive(gs)
    /\ TimeIsUp(gs, t) \/ AllActiveSubmitted(gs)

\* C14: for a game whose roundStartTime is absent a tick calls the Round
\* Starter only, and is done with the game once the Round Starter's update
\* has landed; for a game whose round is running and not due the tick
\* prepares no update.
C14_StartOnlyOrNothing ==
    [][\A t \in DOMAIN task, g \in DOMAIN db :
          /\ /\ task[t][g].pc = "idle" /\ task'[t][g].pc # "idle"
             /\ db[g].gameState.roundStartTime = Null
             => task'[t][g].pc \in {"start", "invalid"}
          /\ task[t][g].pc = "start" /\ task'[t][g].pc # "start" =>
                task'[t][g].pc = "idle"
          /\ /\ task[t][g].pc = "idle"
             /\ db[g].gameState.roundStartTime # Null
             /\ ~Due(db[g].gameState, now)
             => task'[t][g].pc = "idle"]_vars

\* after an invocation that started the round of the second game and failed
\* to start that of the first, the next one is about to start the round of
\* the first and has left alone the second, whose round is running and not
\* due
C14_Witness ==
    \E t \in DOMAIN task :
        /\ DOMAIN db = Games
        /\ events.gameId = "game1" /\ events.status = "failure"
        /\ task[t]["game1"].pc = "start"
        /\ task[t]["game1"].time = now
        /\ db["game1"].gameState.roundStartTime = Null
        /\ task[t]["game2"].pc = "idle"
        /\ Eligible(db["game2"].gameState)
        /\ db["game2"].gameState.roundStartTime # Null
        /\ EnoughActive(db["game2"].gameState)
        /\ ~Due(db["game2"].gameState, now)

----------------------------------------------------------------------------
(* C15 *)

\* C15: when the state re-read after a settlement is not ended, the Round
\* Starter is called in the same invocation: with at least 2 active players
\* its update is pending after the re-read.
C15_NextRoundStartedInSameTick ==
    [][\A t \in DOMAIN task, g \in DOMAIN db :
          /\ task[t][g].pc = "reread"
          /\ task'[t][g].pc # "reread"
          /\ ~db[g].gameState.isEnded
          /\ EnoughActive(db[g].gameState)
          => task'[t][g].pc = "start"]_vars

----------------------------------------------------------------------------
(* C16 *)

\* the callback of invocation t for game g fails in this step: an update is
\* rejected, or the state was invalid
CallbackFails(t, g) ==
    /\ task[t][g].pc \in {"start", "process", "advance", "settle", "invalid"}
    /\ task'[t][g].pc = "idle"
    /\ db'[g] = db[g]
    /\ events' = ErrorEvent(g, task[t][g].gs)

\* C16: when the processing of one game fails in an invocation, the
\* callbacks of the invocation for the other games stay as they are, their
\* updates still to land, and no other game's document changes.
C16_FailureIsolatedPerGame ==
    [][\A t \in DOMAIN task, g \in DOMAIN db :
          CallbackFails(t, g) =>
              \A h \in DOMAIN db \ {g} :
                  task'[t][h] = task[t][h] /\ db'[h] = db[h]]_vars

\* the start of the first game's round has failed in an invocation whose
\* update for the second game is still to land
C16_Witness ==
    \E t \in DOMAIN task :
        /\ DOMAIN db = Games
        /\ events.gameId = "game1" /\ events.status = "failure"
        /\ task[t]["game1"].pc = "idle"
        /\ db["game1"].gameState.roundStartTime = Null
        /\ ~db["game1"].gameState.isEnded
        /\ task[t]["game2"].pc = "start"

----------------------------------------------------------------------------
(* C17 *)

\* C17: allPlayersSubmittedBids is false for every state with fewer than 2
\* active players, whatever the players' hasSubmittedBid.
C17_AllSubmittedNeedsTwoActive ==
    \A g \in DOMAIN db :
        ~EnoughActive(db[g].gameState) =>
            ~allPlayersSubmittedBids(db[g].gameState)

\* a running round, not overdue, whose only active player has submitted:
\* the flags of the active players are all set, and the result is false
C17_Witness ==
    \E g \in DOMAIN db :
        /\ Eligible(db[g].gameState)
        /\ db[g].gameState.roundStartTime # Null
        /\ ~TimeIsUp(db[g].gameState, now)
        /\ ~EnoughActive(db[g].gameState)
        /\ AllActiveSubmitted(db[g].gameState)
        /\ \E p \in DOMAIN db[g].gameState.players :
              /\ ~db[g].gameState.players[p].isTimedOut
              /\ db[g].gameState.players[p].hasSubmittedBid
        /\ ~allPlayersSubmittedBids(db[g].gameState)

----------------------------------------------------------------------------
(* C18 *)

\* the state without its timed-out players
WithoutTimedOut(gs) ==
    [gs EXCEPT !.players =
        [p \in {q \in DOMAIN gs.players : ~gs.players[q].isTimedOut} |->
            gs.players[p]]]

\* the state with the hasSubmittedBid of player p the other way round
FlipSubmitted(gs, p) ==
    [gs EXCEPT !.players[p].hasSubmittedBid = ~gs.players[p].hasSubmittedBid]

\* the timed-out players count neither for the all-submitted check nor for
\* the minimum of 2 active players
TimedOutPlayersIgnored(gs, t) ==
    /\ allPlayersSubmittedBids(gs) = allPlayersSubmittedBids(WithoutTimedOut(gs))
    /\ shouldProcessRound(gs, t) = shouldProcessRound(WithoutTimedOut(gs), t)
    /\ \A p \in DOMAIN gs.players :
          gs.players[p].isTimedOut =>
              /\ allPlayersSubmittedBids(FlipSubmitted(gs, p)) =
                    allPlayersSubmittedBids(gs)
              /\ shouldProcessRound(FlipSubmitted(gs, p), t) =
                    shouldProcessRound(gs, t)

\* C18: the timed-out players are left out of the all-submitted check and of
\* the minimum of 2 active players: their hasSubmittedBid never changes the
\* result of allPlayersSubmittedBids or shouldProcessRound; and the round a
\* settlement stores holds an entry for every timed-out player in its bids,
\* marketShares and profits.
C18_TimedOutIgnoredButSettled ==
    /\ [](\A g \in DOMAIN db : TimedOutPlayersIgnored(db[g].gameState, now))
    /\ [][\A t \in DOMAIN task, g \in DOMAIN db :
             HistoryWritten(t, g) =>
                 /\ StoresRound(t, g)
                 /\ \A p \in DOMAIN task[t][g].gs.players :
                       task[t][g].gs.players[p].isTimedOut =>
                           /\ p \in DOMAIN StoredRound(t, g).bids
                           /\ p \in DOMAIN StoredRound(t, g).marketShares
                           /\ p \in DOMAIN StoredRound(t, g).profits]_vars

\* a round settled before its time limit, on the bids of the active players,
\* holds the penalty bid of a timed-out player who had not submitted
C18_Witness ==
    \E g \in DOMAIN db :
        \E i \in DOMAIN db[g].gameState.roundHistory :
            \E p \in DOMAIN db[g].gameState.players :
                /\ now = ClockStep
                /\ db[g].gameState.players[p].isTimedOut
                /\ p \in DOMAIN db[g].gameState.roundHistory[i].bids
                /\ p \in DOMAIN db[g].gameState.roundHistory[i].marketShares
                /\ p \in DOMAIN db[g].gameState.roundHistory[i].profits
                /\ db[g].gameState.roundHistory[i].bids[p] = MaxBid
                /\ \E q \in DOMAIN db[g].gameState.players :
                      db[g].gameState.roundHistory[i].bids[q] = SubmittedBid

----------------------------------------------------------------------------
(* C19 *)

\* C19: in every reachable state of every game, isEnded = true implies
\* isActive = false.
C19_EndedIsNotActive ==
    \A g \in DOMAIN db :
        db[g].gameState.isEnded => ~db[g].gameState.isActive

----------------------------------------------------------------------------
(* C20 *)

\* a call of toggleAutopilot for game g by an admin goes through in this step
ToggleStored(g) ==
    /\ calls' # calls
    /\ \/ db'[g].gameState.autopilot # db[g].gameState.autopilot
       \/ events' # events /\ events' = ToggleEvent(g, "success")

\* C20: a call of toggleAutopilot(gameId, enabled) by an admin sets the
\* game's autopilot to {enabled, lastUpdateTime: now if enabled, else null}
\* and changes nothing else of the game, nor any other game.
C20_ToggleWritesAutopilotOnly ==
    [][\A g \in DOMAIN db :
          ToggleStored(g) =>
              \E enabled \in BOOLEAN :
                  db' = [db EXCEPT ![g].gameState.autopilot =
                            [enabled |-> enabled,
                             lastUpdateTime |-> IF enabled THEN now ELSE Null]]]_vars

\* the autopilot of a game has been switched off by an admin
C20_Witness ==
    \E g \in DOMAIN db :
        /\ calls < MaxCalls
        /\ events = ToggleEvent(g, "success")
        /\ ~db[g].gameState.autopilot.enabled
        /\ db[g].gameState.autopilot.lastUpdateTime = Null

----------------------------------------------------------------------------
(* C21 *)

\* a call of toggleAutopilot returns in this step
ToggleReturns ==
    /\ calls' # calls
    /\ reply'.fn = "toggleAutopilot"

\* C21: a call of toggleAutopilot by a caller without the admin claim, and a
\* call without gameId, fails with an error and changes nothing in the store.
C21_RejectedToggleMutatesNothing ==
    [][(ToggleReturns /\ (~reply'.admin \/ reply'.gameId = NoGameId)) =>
          /\ reply'.error # ""
          /\ db' = db
          /\ undefinedGame' = undefinedGame]_vars

----------------------------------------------------------------------------
(* C22 *)

\* C22: every call of toggleAutopilot, those turned away for the missing
\* admin claim or the missing gameId included, logs an event: when the call
\* returns, the event logged last is the toggle event of this call, with
\* status success or failure as the call went.
C22_EveryToggleLogged ==
    [][ToggleReturns =>
          events' = ToggleEvent(reply'.gameId,
                                IF reply'.error = "" THEN "success" ELSE "failure")]_vars

----------------------------------------------------------------------------
(* C23 *)

\* the snapshot a settlement works on is malformed
Malformed(gs) == ~HasPlayers(gs) \/ ~IsNumber(gs.maxBid)

\* C23: a settlement of a game without players or without maxBid fails
\* before it writes: no update of a settlement is ever pending for a
\* snapshot that is malformed.
C23_MalformedGameNotSettled ==
    \A t \in DOMAIN task, g \in DOMAIN db :
        task[t][g].pc \in {"process", "advance", "settle"} =>
            ~Malformed(task[t][g].gs)

----------------------------------------------------------------------------
(* C24 *)

InRange(bid, gs) == IsNumber(gs.maxBid) /\ MinBid <= bid /\ bid <= gs.maxBid

\* every currentBid of the snapshot is null or within [minBid, maxBid]
StoredBidsInRange(gs) ==
    \A p \in DOMAIN gs.players :
        ~IsNumber(gs.players[p].currentBid) \/ InRange(gs.players[p].currentBid, gs)

\* C24: the bids of a stored round are the players' stored bids or maxBid,
\* and all of them are within [minBid, maxBid] when every bid stored for a
\* player at the settlement was null or within the range.
C24_RoundBidsInRange ==
    [][\A t \in DOMAIN task, g \in DOMAIN db :
          HistoryWritten(t, g) =>
              LET gs == task[t][g].gs IN
              /\ StoresRound(t, g)
              /\ \A p \in DOMAIN StoredRound(t, g).bids :
                    StoredRound(t, g).bids[p] \in {gs.players[p].currentBid, gs.maxBid}
              /\ StoredBidsInRange(gs) =>
                    \A p \in DOMAIN StoredRound(t, g).bids :
                        InRange(StoredRound(t, g).bids[p], gs)]_vars

\* the second game is settled with the penalty bid for one player and the
\* bid in range of the player who could have bid out of range
C24_Witness ==
    /\ "game2" \in DOMAIN db
    /\ 0 \in DOMAIN db["game2"].gameState.roundHistory
    /\ db["game2"].gameState.roundHistory[0].bids =
          [p \in OtherPlayers |-> IF p = "player7" THEN SubmittedBid ELSE MaxBid]

----------------------------------------------------------------------------
(* C25 *)

\* handleAutopilot (twoPhase) or processGameRound (single) without a failure
FullSettlement(v, doc, gs) ==
    IF v = "twoPhase"
    THEN AdvanceUpdates(ProcessUpdates(doc, gs), gs, RoundResultOf(v, gs))
    ELSE SettleUpdates(doc, gs)

\* an update of the settlement of callback t for game g fails in this step
SettlementUpdateFails(t, g) ==
    /\ task[t][g].pc \in {"process", "advance", "settle"}
    /\ task'[t][g].pc = "idle"

\* the admin has not switched the game off since the invocation read it
StillEligible(doc) ==
    /\ doc.gameState.isActive /\ ~doc.gameState.isEnded
    /\ doc.gameState.autopilot.enabled

\* the document holds what the invocation read, and the updates of the
\* invocation that have landed
OnlyOwnWrites(doc, pending) ==
    LET read == [doc EXCEPT !.gameState.players = pending.gs.players]
        own == IF pending.pc = "advance" THEN ProcessUpdates(read, pending.gs)
               ELSE read
    IN  StillEligible(doc) /\ Captured(doc.gameState) = Captured(own.gameState)

\* C25: when an update of a settlement fails, and nobody else has changed
\* the game meanwhile, the next tick finds the same round due and settles the
\* same round index, and its settlement leaves the document a settlement
\* without the failure would have left.
C25_FailedSettlementRetried ==
    [][\A t \in DOMAIN task, g \in DOMAIN db :
          (SettlementUpdateFails(t, g) /\ OnlyOwnWrites(db[g], task[t][g])) =>
              LET failed == task[t][g]
                  retry == Dispatch(variant, db'[g], now')
                  expected == IF failed.pc = "advance"
                              THEN AdvanceUpdates(db[g], failed.gs,
                                       RoundResultOf(variant, failed.gs))
                              ELSE FullSettlement(variant, db[g], failed.gs)
              IN  /\ retry.pc \in {"process", "settle"}
                  /\ RoundIndex(retry.gs) = RoundIndex(failed.gs)
                  /\ FullSettlement(variant, db'[g], retry.gs) = expected]_vars

\* the second update of a settlement has failed after the first had written
\* the penalty bid of a player, and the round is due again
C25_Witness ==
    \E t \in DOMAIN task, g \in DOMAIN db :
        /\ variant = "twoPhase"
        /\ task[t][g].pc = "idle"
        /\ events = ErrorEvent(g, db[g].gameState)
        /\ db[g].gameState.roundStartTime # Null
        /\ db[g].gameState.roundHistory = <<>>
        /\ \E p \in DOMAIN db[g].gameState.players :
              /\ ~db[g].gameState.players[p].isTimedOut
              /\ ~db[g].gameState.players[p].hasSubmittedBid
              /\ db[g].gameState.players[p].currentBid = MaxBid
        /\ Dispatch(variant, db[g], now).pc = "process"

----------------------------------------------------------------------------
(* C26 *)

\* an invocation runs its query and calls shouldProcessRound in this step
TickRuns(t) ==
    /\ SlotFree(t)
    /\ \E g \in DOMAIN db : task'[t][g].pc # "idle"

----------------------------------------------------------------------------
(* C27 *)

\* C27: when the last update of a settlement has landed, every player who is
\* not timed out has hasSubmittedBid = false and currentBid = null, and every
\* timed-out player has the currentBid and hasSubmittedBid the settlement
\* found; on the last round as on the others.
C27_SettlementResetsActivePlayersOnly ==
    [][\A t \in DOMAIN task, g \in DOMAIN db :
          HistoryWritten(t, g) =>
              \A p \in DOMAIN task[t][g].gs.players :
                  LET before == task[t][g].gs.players[p]
                      after == db'[g].gameState.players[p]
                  IN  IF before.isTimedOut
                      THEN /\ after.currentBid = before.currentBid
                           /\ after.hasSubmittedBid = before.hasSubmittedBid
                      ELSE /\ after.currentBid = Null
                           /\ after.hasSubmittedBid = FALSE]_vars

----------------------------------------------------------------------------
(* C28 *)

\* the update of startNewRound of callback t lands on game g in this step
StartLands(t, g) ==
    /\ task[t][g].pc = "start"
    /\ UpdateLands(t, g)

\* callback t calls startNewRound for game g in this step: for a round not
\* started, or after the re-read that follows a settlement
StarterCalled(t, g) ==
    \/ /\ TickRuns(t)
       /\ db[g].gameState.isActive /\ Eligible(db[g].gameState)
       /\ db[g].gameState.roundStartTime = Null
    \/ /\ task[t][g].pc = "reread" /\ task'[t][g].pc # "reread"
       /\ StartsNextRound(variant, db[g].gameState)

\* what the update of startNewRound leaves in the document
RoundStartedBy(t, g) ==
    LET gs == task[t][g].gs
        old == db[g].gameState
        new == db'[g].gameState
    IN  /\ EnoughActive(gs)
        /\ new.roundStartTime = task[t][g].time
        /\ new.isActive
        /\ \A p \in DOMAIN new.players :
              /\ ~new.players[p].hasSubmittedBid
              /\ new.players[p].currentBid = Null
              /\ new.players[p].isTimedOut = old.players[p].isTimedOut
        /\ new.currentRound = old.currentRound
        /\ new.roundHistory = old.roundHistory
        /\ new.autopilot = old.autopilot

\* C28 as stated: with at least 2 active players the Round Starter stamps
\* roundStartTime, sets isActive and resets the bid state of every player,
\* leaving currentRound, roundHistory, isTimedOut and autopilot alone; with
\* fewer than 2 active players it writes nothing and raises no error.
C28_AsStated ==
    [][\A t \in DOMAIN task, g \in DOMAIN db :
          /\ StartLands(t, g) => RoundStartedBy(t, g)
          /\ StarterCalled(t, g) /\ ~EnoughActive(db[g].gameState) =>
                task'[t][g].pc = "idle" /\ db'[g] = db[g]]_vars

\* C28: as above, but with fewer than 2 active players the Round Starter
\* writes nothing and raises no error only when the game has players; for a
\* game without players it writes nothing and throws.
C28_RoundStarter ==
    [][\A t \in DOMAIN task, g \in DOMAIN db :
          /\ StartLands(t, g) => RoundStartedBy(t, g)
          /\ StarterCalled(t, g) /\ ~EnoughActive(db[g].gameState) =>
                /\ db'[g] = db[g]
                /\ task'[t][g].pc =
                      IF DOMAIN db[g].gameState.players = {} THEN "invalid"
                      ELSE "idle"]_vars

\* the second round of a game has been started and the bid state of a
\* timed-out player, which the settlement of the first round had left in
\* place, is reset
C28_Witness ==
    \E g \in DOMAIN db :
        \E p \in DOMAIN db[g].gameState.players :
            /\ variant = "twoPhase"
            /\ db[g].gameState.currentRound = 2
            /\ db[g].gameState.roundStartTime # Null
            /\ db[g].gameState.isActive
            /\ DOMAIN db[g].gameState.roundHistory = {0}
            /\ db[g].gameState.players[p].isTimedOut
            /\ db[g].gameState.roundHistory[0].bids[p] = SubmittedBid
            /\ db[g].gameState.players[p].currentBid = Null
            /\ ~db[g].gameState.players[p].hasSubmittedBid

----------------------------------------------------------------------------
(* C29 *)

\* C29: the update of the Round Starter sets rivalries, to every player
\* against all the others, when the stored rivalries are empty or absent, and
\* leaves them as they are otherwise; no other step changes them.
C29_RivalriesOnlyWhenUnset ==
    [][\A g \in DOMAIN db :
          LET old == db[g].gameState.rivalries
              new == db'[g].gameState.rivalries
              ids == DOMAIN db[g].gameState.players
          IN  /\ \A t \in DOMAIN task :
                    StartLands(t, g) =>
                        IF DOMAIN old = {}
                        THEN /\ DOMAIN new = ids
                             /\ \A p \in ids : new[p] = ids \ {p}
                        ELSE new = old
              /\ new # old =>
                    DOMAIN old = {} /\ \E t \in DOMAIN task : StartLands(t, g)]_vars

\* the rounds of both games are started: the first game has got all its
\* players as rivals of each other, the second has kept the rivalries
\* assigned
C29_Witness ==
    /\ DOMAIN db = Games
    /\ db["game1"].gameState.roundStartTime # Null
    /\ db["game1"].gameState.rivalries = AllPlayAll(TwoPlayers)
    /\ db["game2"].gameState.roundStartTime # Null
    /\ db["game2"].gameState.rivalries = AssignedRivalries

----------------------------------------------------------------------------
(* C30 *)

\* the history holds entries at 0..k-1, entry i being round i+1
HistoryInOrder(history) ==
    /\ DOMAIN history = 0..(Cardinality(DOMAIN history) - 1)
    /\ \A i \in DOMAIN history : history[i].round = i + 1

\* C30: roundHistory only grows: with one invocation at a time every
\* settlement adds one entry after the last and keeps the others, no other
\* step changes the history, and after k settlements it holds the rounds
\* 1..k at the indices 0..k-1.
C30_HistoryGrowsInOrder ==
    /\ [](\A g \in DOMAIN db : HistoryInOrder(db[g].gameState.roundHistory))
    /\ [][\A g \in DOMAIN db :
             LET old == db[g].gameState.roundHistory
                 new == db'[g].gameState.roundHistory
             IN  IF \E t \in DOMAIN task : HistoryWritten(t, g)
                 THEN /\ DOMAIN new = DOMAIN old \cup {Cardinality(DOMAIN old)}
                      /\ \A i \in DOMAIN old : new[i] = old[i]
                 ELSE new = old]_vars

\* two rounds of a game are settled, with a player timed out in between
C30_Witness ==
    \E g \in DOMAIN db :
        LET history == db[g].gameState.roundHistory IN
        /\ DOMAIN history = {0, 1}
        /\ history[0].round = 1 /\ history[1].round = 2
        /\ history[0].bids # history[1].bids
        /\ db[g].gameState.isEnded

----------------------------------------------------------------------------
(* C31 *)

\* the settlement whose last update lands in this step is that of the last
\* round
LastRoundSettled(t, g) ==
    /\ HistoryWritten(t, g)
    /\ task[t][g].gs.currentRound >= task[t][g].gs.totalRounds

\* the sum, over the rounds, of the sum over the players of the profit
SumOfRoundProfits(rounds) ==
    [d \in Denominators(rounds) |->
        SumOf([i \in DOMAIN rounds |->
                  SumOf([p \in DOMAIN rounds[i].profits |->
                            IF rounds[i].profits[p].den = d
                            THEN rounds[i].profits[p].num
                            ELSE 0],
                        DOMAIN rounds[i].profits)],
              DOMAIN rounds)]

\* C31: when the last round is settled the game's totalProfit is the sum,
\* over the rounds of roundHistory and the round just settled, of the profits
\* of all players.
C31_TotalProfitOfAllRounds ==
    [][\A t \in DOMAIN task, g \in DOMAIN db :
          LastRoundSettled(t, g) =>
              /\ StoresRound(t, g)
              /\ db'[g].gameState.totalProfit =
                    SumOfRoundProfits(
                        AllRounds(db[g].gameState.roundHistory, StoredRound(t, g)))]_vars

----------------------------------------------------------------------------
(* C32 *)

\* m is the highest profit of a player in the round
IsMaxProfit(round, m) ==
    \E p \in DOMAIN round.profits :
        /\ m = round.profits[p]
        /\ \A q \in DOMAIN round.profits : ~Greater(round.profits[q], m)

\* round i has the highest maximum of all rounds, and is the first that has
IsBestRound(rounds, i, m) ==
    /\ IsMaxProfit(rounds[i], m)
    /\ \A j \in DOMAIN rounds :
          \A n \in {rounds[j].profits[p] : p \in DOMAIN rounds[j].profits} :
              IsMaxProfit(rounds[j], n) =>
                  /\ ~Greater(n, m)
                  /\ j < i => Greater(m, n)

\* C32: when the last round is settled, bestRound is the number of the round
\* with the highest profit of a single player, the earliest of them when
\* several rounds tie, and bestRoundProfit is that profit.
C32_BestRoundIsEarliestMaximum ==
    [][\A t \in DOMAIN task, g \in DOMAIN db :
          LastRoundSettled(t, g) =>
              /\ StoresRound(t, g)
              /\ LET rounds == AllRounds(db[g].gameState.roundHistory,
                                         StoredRound(t, g))
                 IN  \E i \in DOMAIN rounds :
                         /\ IsBestRound(rounds, i, db'[g].gameState.bestRoundProfit)
                         /\ db'[g].gameState.bestRound = rounds[i].round]_vars

----------------------------------------------------------------------------
(* C33 *)

\* the players of the snapshot that are timed out, or settled at the maxBid
\* penalty for want of a submitted bid
PenalisedOrTimedOut(gs) ==
    {p \in DOMAIN gs.players :
        \/ gs.players[p].isTimedOut
        \/ ~(gs.players[p].hasSubmittedBid /\ IsNumber(gs.players[p].currentBid))}

\* C33: a settlement that succeeds logs the event process_round / success
\* with the round number, the number of players, the number of resolved bids
\* and the number of players timed out or settled at the maxBid penalty.
C33_SettlementLogged ==
    [][\A t \in DOMAIN task, g \in DOMAIN db :
          HistoryWritten(t, g) =>
              LET gs == task[t][g].gs IN
              /\ StoresRound(t, g)
              /\ events' =
                    [gameId |-> g, action |-> "process_round", status |-> "success",
                     round |-> gs.currentRound,
                     playerCount |-> Cardinality(DOMAIN gs.players),
                     processedBids |-> Cardinality(DOMAIN StoredRound(t, g).bids),
                     timeoutBids |-> Cardinality(PenalisedOrTimedOut(gs))]]_vars

----------------------------------------------------------------------------
(* C34 *)

\* C34: no update of a settlement or of the Round Starter writes
\* gameState/autopilot: the node changes only in the step of a call of
\* toggleAutopilot for the game that succeeds, wherever that step falls
\* between the steps of an invocation, so that what the call has set stays.
C34_AutopilotWrittenByToggleOnly ==
    [][\A g \in DOMAIN db :
          LET changed == db'[g].gameState.autopilot # db[g].gameState.autopilot
          IN  /\ changed =>
                    ToggleReturns /\ reply'.gameId = g /\ reply'.error = ""
              /\ \A t \in DOMAIN task : task'[t][g] # task[t][g] => ~changed]_vars

\* the admin has switched the autopilot off between the two updates of a
\* settlement, or before both
C34_Witness ==
    \E t \in DOMAIN task, g \in DOMAIN db :
        /\ task[t][g].pc = "advance"
        /\ events = ToggleEvent(g, "success")
        /\ reply = Reply("toggleAutopilot", g, TRUE, "")
        /\ db[g].gameState.autopilot = AutopilotState(FALSE, now)

----------------------------------------------------------------------------
(* C35 *)

\* the settlement of invocation t stores a round that another invocation has
\* stored already
SettlesAgain(t, g) ==
    /\ HistoryWritten(t, g)
    /\ RoundIndex(task[t][g].gs) \in DOMAIN db[g].gameState.roundHistory

\* C35 as stated: when two overlapping invocations settle the same round of a
\* game, after the second update currentRound is the round settled plus 1 and
\* roundHistory holds one entry for the round's index.
C35_SettledTwiceAdvancesOnce ==
    [][\A t \in DOMAIN task, g \in DOMAIN db :
          SettlesAgain(t, g) =>
              /\ DOMAIN db'[g].gameState.roundHistory =
                     DOMAIN db[g].gameState.roundHistory
              /\ StoredRound(t, g).round = task[t][g].gs.currentRound
              /\ db'[g].gameState.currentRound =
                     task[t][g].gs.currentRound + 1]_vars

\* C35, amended: when two overlapping invocations settle the same round of a
\* game, after the second update roundHistory holds one entry for the round's
\* index, and currentRound is the round settled plus 1 if the round is not the
\* last; on the last round both end the game and currentRound stays.
C35_SettledTwiceAdvancesOnceUnlessLast ==
    [][\A t \in DOMAIN task, g \in DOMAIN db :
          SettlesAgain(t, g) =>
              /\ DOMAIN db'[g].gameState.roundHistory =
                     DOMAIN db[g].gameState.roundHistory
              /\ StoredRound(t, g).round = task[t][g].gs.currentRound
              /\ db'[g].gameState.currentRound =
                     IF task[t][g].gs.currentRound < task[t][g].gs.totalRounds
                     THEN task[t][g].gs.currentRound + 1
                     ELSE task[t][g].gs.currentRound
              /\ task[t][g].gs.currentRound >= task[t][g].gs.totalRounds =>
                     db'[g].gameState.isEnded]_vars

\* two invocations have both just settled round 1 of a game of two rounds
C35_Witness ==
    \E g \in DOMAIN db :
        /\ \A t \in Slots : t \in DOMAIN task /\ task[t][g].pc = "reread"
        /\ DOMAIN db[g].gameState.roundHistory = {0}
        /\ db[g].gameState.totalRounds = 2
        /\ db[g].gameState.currentRound = 2

----------------------------------------------------------------------------
(* C36 *)

\* the store holds a bid of player p that is not timed out
HoldsBid(doc, p) ==
    /\ ~doc.gameState.players[p].isTimedOut
    /\ doc.gameState.players[p].hasSubmittedBid
    /\ IsNumber(doc.gameState.players[p].currentBid)

\* C36: the bid of an active player that is in the store when the update of
\* the settlement that stores the round lands is the bid the round records
\* for the player: the settlement neither records maxBid for it nor
\* overwrites it.
C36_StoredBidIsRecorded ==
    [][\A t \in DOMAIN task, g \in DOMAIN db :
          \A p \in DOMAIN db[g].gameState.players :
              HistoryWritten(t, g) /\ HoldsBid(db[g], p) =>
                  /\ StoresRound(t, g)
                  /\ StoredRound(t, g).bids[p] =
                         db[g].gameState.players[p].currentBid]_vars

----------------------------------------------------------------------------
(* C37 *)

\* the times a round was or is being started at
Stamps(g) ==
    ({db[g].gameState.roundStartTime} \ {Null})
        \cup {task[t][g].time : t \in {u \in DOMAIN task : task[u][g].pc = "start"}}

\* time passes while a round runs: the callback reads the clock only to
\* compare it with roundStartTime, so the clock is advanced only as long as
\* the time limit of some round has not elapsed
TimePasses ==
    /\ \E g \in DOMAIN db :
          \E s \in Stamps(g) : now - s < db[g].gameState.roundTimeLimit * 1000
    /\ now' = now + ClockStep
    /\ UNCHANGED <<variant, db, task, events, calls, reply, undefinedGame, microtasks>>

\* an admin times a player out and leaves at least 2 active players
TimeoutPlayerOfMany(g, p) ==
    /\ g \in DOMAIN db
    /\ Cardinality({q \in DOMAIN db[g].gameState.players :
                        ~db[g].gameState.players[q].isTimedOut}) > 2
    /\ TimeoutPlayer(g, p)

\* the steps of a game left to the autopilot: no update is rejected, nobody
\* toggles the autopilot or ends the game by hand
NextLive ==
    \/ \E t \in Slots : Tick(t)
    \/ \E t \in Slots, g \in Games : StartWrite(t, g)
    \/ \E t \in Slots, g \in Games : ProcessWrite(t, g)
    \/ \E t \in Slots, g \in Games : AdvanceWrite(t, g)
    \/ \E t \in Slots, g \in Games : SettleWrite(t, g)
    \/ \E t \in Slots, g \in Games : Reread(t, g)
    \/ \E g \in Games, p \in Players \cup TwoPlayers :
          SubmitBid(g, p, SubmittedBid)
    \/ \E g \in Games, p \in TimeoutCandidates : TimeoutPlayerOfMany(g, p)
    \/ TimePasses

\* a step of the scheduled function: an invocation begins, or the update or
\* read a callback awaits is answered
Runs ==
    \/ \E t \in Slots : Tick(t)
    \/ \E t \in Slots, g \in Games :
          \/ StartWrite(t, g)
          \/ ProcessWrite(t, g)
          \/ AdvanceWrite(t, g)
          \/ SettleWrite(t, g)
          \/ Reread(t, g)

\* the scheduler runs processAutopilot every minute, every update the
\* callback awaits is answered, and time goes on
FairTicks == WF_vars(Runs) /\ WF_vars(TimePasses)

\* a started game with three players and its autopilot on, one invocation at
\* a time
SpecLive == InitSequential /\ [][NextLive]_vars /\ FairTicks

GameOver(g) ==
    /\ db[g].gameState.isEnded
    /\ Cardinality(DOMAIN db[g].gameState.roundHistory) =
          db[g].gameState.totalRounds

\* C37: with fair ticks, the autopilot on, at least 2 active players, time
\* going on and no update rejected, every game eventually is ended with
\* totalRounds entries in roundHistory.
C37_GameEventuallyOver == <>(\A g \in DOMAIN db : GameOver(g))

\* a game of two rounds is over, both rounds stored
C37_Witness ==
    \E g \in DOMAIN db :
        /\ GameOver(g)
        /\ db[g].gameState.totalRounds = 2
        /\ DOMAIN db[g].gameState.roundHistory = {0, 1}

----------------------------------------------------------------------------
(* C38 *)

\* C38: with one invocation at a time, round starts and settlements of a
\* game alternate: a settlement stores a round only while roundStartTime is
\* set, and clears it; the Round Starter writes only while roundStartTime is
\* absent, and sets it; and no other step sets or clears roundStartTime, so
\* that exactly one update of the Round Starter lies between two settlements.
C38_StartsAndSettlementsAlternate ==
    [][\A g \in DOMAIN db :
          LET old == db[g].gameState.roundStartTime
              new == db'[g].gameState.roundStartTime
          IN  /\ \A t \in DOMAIN task :
                    /\ HistoryWritten(t, g) => old # Null /\ new = Null
                    /\ StartLands(t, g) => old = Null /\ new # Null
              /\ new # old =>
                    \E t \in DOMAIN task :
                        HistoryWritten(t, g) \/ StartLands(t, g)]_vars

\* round 1 was started and settled, and round 2 is started
C38_Witness ==
    \E g \in DOMAIN db :
        /\ DOMAIN db[g].gameState.roundHistory = {0}
        /\ db[g].gameState.currentRound = 2
        /\ db[g].gameState.roundStartTime # Null
        /\ \A t \in DOMAIN task : task[t][g].pc = "idle"

----------------------------------------------------------------------------
(* C39 *)

\* C39: in every state a game created with currentRound 1 and totalRounds of
\* at least 1 reaches through the invocations of the scheduler, currentRound
\* is at least 1 and at most totalRounds.
C39_CurrentRoundInRange ==
    \A g \in DOMAIN db :
        /\ 1 <= db[g].gameState.currentRound
        /\ db[g].gameState.currentRound <= db[g].gameState.totalRounds

\* an invocation has just settled the last round of a game of two rounds:
\* the counter is left at totalRounds
C39_Witness ==
    \E t \in DOMAIN task, g \in DOMAIN db :
        /\ task[t][g].pc = "reread"
        /\ db[g].gameState.isEnded
        /\ db[g].gameState.totalRounds = 2
        /\ db[g].gameState.currentRound = 2
        /\ 1 \in DOMAIN db[g].gameState.roundHistory

----------------------------------------------------------------------------
(* C40 *)

\* localStorage holds one game, 'currentGame'
CurrentGame == "game1"

\* getGameState(): the stored game as it is when the call is made
getGameState == db[CurrentGame].gameState

\* whether a call of fn for player p is suspended
IsSuspended(fn, p) ==
    \E i \in DOMAIN microtasks :
        microtasks[i].fn = fn /\ microtasks[i].player = p

\* addPlayer(p, data) or submitBid(p, bid) is called: it runs up to its
\* `await this.getGameState()`, which has read the store
CallAdapter(fn, p) ==
    /\ ~IsSuspended(fn, p)
    /\ fn = "addPlayer" => p \notin DOMAIN getGameState.players
    /\ fn = "submitBid" /\ p \in DOMAIN getGameState.players =>
          ~getGameState.players[p].hasSubmittedBid
    /\ microtasks' = Append(microtasks,
                            [fn |-> fn, player |-> p, pc |-> "read",
                             currentState |-> getGameState,
                             players |-> getGameState.players])
    /\ UNCHANGED <<variant, db, task, now, events, calls, reply, undefinedGame>>

\* players as the call builds it from the state it has read
PlayersOf(k) ==
    LET players == k.currentState.players
        p == k.player
    IN  IF k.fn = "addPlayer"
        THEN [q \in DOMAIN players \cup {p} |->
                 IF q = p THEN NewPlayer ELSE players[q]]
        ELSE [players EXCEPT ![p] = [@ EXCEPT !.currentBid = SubmittedBid,
                                             !.hasSubmittedBid = TRUE]]

\* the oldest suspended call resumes after its read: it builds players and
\* calls updateGameState({players}), which runs up to its own
\* `await this.getGameState()`; submitBid for an unknown player returns
AfterRead ==
    /\ microtasks # <<>>
    /\ Head(microtasks).pc = "read"
    /\ LET k == Head(microtasks) IN
       IF k.fn = "submitBid" /\ k.player \notin DOMAIN k.currentState.players
       THEN microtasks' = Tail(microtasks)
       ELSE microtasks' = Append(Tail(microtasks),
                                 [k EXCEPT !.pc = "update",
                                           !.currentState = getGameState,
                                           !.players = PlayersOf(k)])
    /\ UNCHANGED <<variant, db, task, now, events, calls, reply, undefinedGame>>

\* updateGameState resumes: newState = {...currentState, ...gameState} is
\* stored
SetItem ==
    /\ microtasks # <<>>
    /\ Head(microtasks).pc = "update"
    /\ LET k == Head(microtasks) IN
       db' = [db EXCEPT ![CurrentGame].gameState =
                 [k.currentState EXCEPT !.players = k.players]]
    /\ microtasks' = Tail(microtasks)
    /\ UNCHANGED <<variant, task, now, events, calls, reply, undefinedGame>>

\* a game before the players register, in local storage
InitAdapter ==
    /\ variant = "single"
    /\ now = ClockStep
    /\ db = [g \in {CurrentGame} |-> StartedGame({}, 1, ClockStep)]
    /\ task = [t \in {"tickA"} |-> [g \in {CurrentGame} |-> Idle]]
    /\ events = NoEvent
    /\ calls = 0
    /\ reply = NoReply
    /\ undefinedGame = <<>>
    /\ microtasks = <<>>

NextAdapter ==
    \/ \E fn \in {"addPlayer", "submitBid"}, p \in TwoPlayers : CallAdapter(fn, p)
    \/ AfterRead
    \/ SetItem

\* the calls of the storage adapter alone, resumed in the order of their
\* awaits
SpecAdapter == InitAdapter /\ [][NextAdapter]_vars

\* C40: the read-modify-write of a call of submitBid or addPlayer for one
\* player keeps what the store holds of the other players, also when the call
\* was issued while a call for another player was not yet finished: the
\* updates of both are in the store afterwards.
C40_CallsKeepOtherPlayers ==
    [][\A q \in DOMAIN getGameState.players :
          microtasks # <<>> /\ Head(microtasks).player # q =>
              /\ q \in DOMAIN db'[CurrentGame].gameState.players
              /\ db'[CurrentGame].gameState.players[q] = getGameState.players[q]]_vars

====
